---- MODULE Spec2Model ----
(***************************************************************************)
(* Model of the sitemap resolution of website_analyzer/src/sitemap_parser  *)
(* (class SitemapParser): robots.txt discovery, level-by-level concurrent  *)
(* fetching of sitemap documents under a semaphore, URL de-duplication and *)
(* the filter / priority pipeline.                                         *)
(*                                                                         *)
(* Python strings are sequences of one-character strings, so that prefix,  *)
(* suffix, strip, lower and urlparse are computed, not assumed.            *)
(***************************************************************************)
EXTENDS Integers, Sequences, FiniteSets, TLC

(***************************************************************************)
(* str methods                                                             *)
(***************************************************************************)
\* the element of a one-element set: The({f(x) : x \in {e}}) is f(e) with e
\* evaluated once and x bound to its value
The(S) == CHOOSE x \in S : TRUE

Whitespace == {" ", "\n", "\t"}

startswith(s, p) == Len(p) <= Len(s) /\ SubSeq(s, 1, Len(p)) = p

endswith(s, e) == Len(e) <= Len(s) /\ SubSeq(s, Len(s) - Len(e) + 1, Len(s)) = e

occurs_in(s, k) == \E i \in 1..(Len(s) - Len(k) + 1) : SubSeq(s, i, i + Len(k) - 1) = k

\* `k in s` for strings
contains(s, k) == The({occurs_in(v, k) : v \in {s}})

first_index(s, chars) ==
    IF \E i \in 1..Len(s) : s[i] \in chars
    THEN CHOOSE i \in 1..Len(s) : s[i] \in chars /\ \A j \in 1..(i - 1) : s[j] \notin chars
    ELSE 0

\* s.find(c) for a set of characters, 1-based; 0 when none occurs
find(s, chars) == The({first_index(v, chars) : v \in {s}})

UpperLetters ==
    <<"A", "B", "C", "D", "E", "F", "G", "H", "I", "J", "K", "L", "M",
      "N", "O", "P", "Q", "R", "S", "T", "U", "V", "W", "X", "Y", "Z">>

LowerLetters ==
    <<"a", "b", "c", "d", "e", "f", "g", "h", "i", "j", "k", "l", "m",
      "n", "o", "p", "q", "r", "s", "t", "u", "v", "w", "x", "y", "z">>

lowerChar(c) ==
    IF \E i \in 1..Len(UpperLetters) : UpperLetters[i] = c
    THEN LowerLetters[CHOOSE i \in 1..Len(UpperLetters) : UpperLetters[i] = c]
    ELSE c

lower(s) == The({[i \in 1..Len(v) |-> lowerChar(v[i])] : v \in {s}})

stripped(s) ==
    IF \A i \in 1..Len(s) : s[i] \in Whitespace
    THEN <<>>
    ELSE SubSeq(s,
                CHOOSE i \in 1..Len(s) :
                    s[i] \notin Whitespace /\ \A j \in 1..(i - 1) : s[j] \in Whitespace,
                CHOOSE i \in 1..Len(s) :
                    s[i] \notin Whitespace /\ \A j \in (i + 1)..Len(s) : s[j] \in Whitespace)

strip(s) == The({stripped(v) : v \in {s}})

(***************************************************************************)
(* urllib.parse.urlparse / urljoin, for URLs without params (";"), IPv6    *)
(* brackets and dot-segments                                               *)
(***************************************************************************)
Alpha == {UpperLetters[i] : i \in 1..Len(UpperLetters)}
             \cup {LowerLetters[i] : i \in 1..Len(LowerLetters)}

SchemeChars == Alpha \cup {"0", "1", "2", "3", "4", "5", "6", "7", "8", "9", "+", "-", "."}

\* the last step of urlsplit: query and fragment are cut off the path
cut_path(scheme, netloc, tail, q) ==
    [scheme |-> scheme, netloc |-> netloc,
     path |-> IF q = 0 THEN tail ELSE SubSeq(tail, 1, q - 1)]

path_of(scheme, netloc, tail) ==
    The({cut_path(scheme, netloc, tail, q) : q \in {find(tail, {"?", "#"})}})

\* _splitnetloc: the netloc ends at the first of "/", "?", "#"
cut_netloc(scheme, after, d) ==
    IF d = 0 THEN path_of(scheme, after, <<>>)
    ELSE The({path_of(scheme, netloc, tail) :
                 netloc \in {SubSeq(after, 1, d - 1)}, tail \in {SubSeq(after, d, Len(after))}})

after_slashes(scheme, after) == cut_netloc(scheme, after, find(after, {"/", "?", "#"}))

split_netloc(scheme, rest) ==
    IF startswith(rest, <<"/", "/">>)
    THEN The({after_slashes(scheme, after) : after \in {SubSeq(rest, 3, Len(rest))}})
    ELSE path_of(scheme, <<>>, rest)

\* the scheme is what precedes the first ":", when that is a legal scheme name
split_scheme(url, i) ==
    IF i > 1 /\ url[1] \in Alpha /\ \A j \in 1..(i - 1) : url[j] \in SchemeChars
    THEN The({split_netloc(scheme, rest) :
                 scheme \in {lower(SubSeq(url, 1, i - 1))},
                 rest \in {SubSeq(url, i + 1, Len(url))}})
    ELSE split_netloc(<<>>, url)

parse_url(url) == The({split_scheme(url, i) : i \in {find(url, {":"})}})

\* urlparse(url): the record of scheme, netloc and path
urlparse(url) == The({parse_url(v) : v \in {url}})

\* urljoin for the parsed base b and the parsed reference u
join(b, u, base, url) ==
    IF base = <<>> THEN url
    ELSE IF url = <<>> THEN base
    ELSE IF u.scheme # <<>> /\ u.scheme # b.scheme THEN url
    ELSE IF u.netloc # <<>> THEN b.scheme \o <<":", "/", "/">> \o u.netloc \o u.path
    ELSE IF startswith(u.path, <<"/">>) THEN b.scheme \o <<":", "/", "/">> \o b.netloc \o u.path
    ELSE b.scheme \o <<":", "/", "/">> \o b.netloc \o <<"/">> \o u.path

\* urljoin(base, url) for a base without path, as every caller passes
urljoin(base, url) ==
    The({join(b, u, base, url) : b \in {urlparse(base)}, u \in {urlparse(url)}})

normalized(url, base_url) ==
    IF startswith(url, <<"h", "t", "t", "p">>) THEN url ELSE urljoin(base_url, url)

normalize_url(url, base_url) == The({normalized(v, base_url) : v \in {url}})

domain_of(parsed) == parsed.scheme \o <<":", "/", "/">> \o parsed.netloc

get_domain(url) == The({domain_of(parsed) : parsed \in {urlparse(url)}})

common_paths ==
    << <<"/","s","i","t","e","m","a","p",".","x","m","l">>,
       <<"/","s","i","t","e","m","a","p","_","i","n","d","e","x",".","x","m","l">>,
       <<"/","s","i","t","e","m","a","p","s",".","x","m","l">>,
       <<"/","s","i","t","e","m","a","p","/","s","i","t","e","m","a","p",".","x","m","l">>,
       <<"/","w","p","-","s","i","t","e","m","a","p",".","x","m","l">>,
       <<"/","s","i","t","e","m","a","p","1",".","x","m","l">> >>

discover_sitemap_urls(domain) ==
    [i \in 1..Len(common_paths) |-> urljoin(domain, common_paths[i])]

(***************************************************************************)
(* Data: Optional[x] is <<>> (None) or <<x>>                               *)
(***************************************************************************)
None == <<>>

Some(x) == <<x>>

\* dataclass URLInfo
URLInfo(url, lastmod, changefreq, priority, loc_type, source_sitemap) ==
    [url |-> url, lastmod |-> lastmod, changefreq |-> changefreq,
     priority |-> priority, loc_type |-> loc_type, source_sitemap |-> source_sitemap]

\* dataclass SitemapInfo (last_parsed, a wall-clock stamp nobody reads, is left out)
SitemapInfo(url, urls, nested_sitemaps, error) ==
    [url |-> url, urls |-> urls, nested_sitemaps |-> nested_sitemaps, error |-> error]

(***************************************************************************)
(* The web the parser runs against.  A sitemap body is the element tree    *)
(* BeautifulSoup builds: whether a <sitemapindex> exists, the <sitemap>,   *)
(* <url> and <image:image> elements with their optional children.  A       *)
(* robots.txt body is its list of lines.                                   *)
(***************************************************************************)
SiteA == <<"h","t","t","p","s",":","/","/","a",".","c">>

SiteB == <<"h","t","t","p","s",":","/","/","b",".","c">>

P_robots == <<"/","r","o","b","o","t","s",".","t","x","t">>

P_sitemap == common_paths[1]

P_index == common_paths[2]

P_sitemap1 == common_paths[6]

P_sitemap2 == <<"/","s","i","t","e","m","a","p","2",".","x","m","l">>

P_A == <<"/","A",".","x","m","l">>

P_A2 == <<"/","A","2",".","x","m","l">>

P_B == <<"/","B",".","x","m","l">>

P_C == <<"/","C",".","x","m","l">>

P_D == <<"/","D",".","x","m","l">>

P_ext == <<"/","e","x","t",".","x","m","l">>

P_E == <<"/","E",".","x","m","l">>

P_S == <<"/","S",".","x","m","l">>

T_2024 == <<"2","0","2","4">>

T_daily == <<"d","a","i","l","y">>

T_weekly == <<"w","e","e","k","l","y">>

Num(v) == [num |-> TRUE, val |-> v]

NotNum == [num |-> FALSE, val |-> 0]

UrlElem(loc, lastmod, changefreq, priority) ==
    [loc |-> loc, lastmod |-> lastmod, changefreq |-> changefreq, priority |-> priority]

Soup(isIndex, sitemaps, urls, images) ==
    [malformed |-> FALSE, sitemapindex |-> isIndex, sitemaps |-> sitemaps,
     urls |-> urls, images |-> images]

BrokenSoup ==
    [malformed |-> TRUE, sitemapindex |-> FALSE, sitemaps |-> <<>>, urls |-> <<>>,
     images |-> <<>>]

RobotsLines ==
    << <<"U","s","e","r","-","a","g","e","n","t",":"," ","*">>,
       <<"D","i","s","a","l","l","o","w",":"," ">> \o <<"/","p","r","i","v","a","t","e">>,
       <<"S","i","t","e","m","a","p",":"," ">> \o SiteA \o P_index,
       <<"S","I","T","E","M","A","P",":"," "," ">> \o SiteB \o P_ext \o <<" ">>,
       <<"S","i","t","e","m","a","p",":"," ">> >>

Ok(body) == [status |-> 200, body |-> body]

Status(code) == [status |-> code, body |-> <<>>]

\* what the server answers to GET url when the connection succeeds
Site(url) ==
    CASE url = SiteA \o P_robots -> Ok(RobotsLines)
      [] url = SiteA \o P_sitemap ->
            Ok(Soup(FALSE, <<>>,
                    << UrlElem(Some(SiteA \o <<"/">>), Some(T_2024), Some(T_daily), Some(Num(100))),
                       UrlElem(Some(<<" ">> \o SiteA \o <<"/","a","b","o","u","t">> \o <<"\n">>),
                               None, None, Some(NotNum)),
                       UrlElem(Some(SiteA \o <<"/","p","r","i","v","a","t","e","/","x">>),
                               None, None, None),
                       UrlElem(None, Some(T_2024), None, None),
                       UrlElem(Some(<<>>), None, None, None),
                       UrlElem(Some(<<" ">>), None, None, Some(Num(50))),
                       UrlElem(Some(SiteB \o <<"/","p">>), None, None, None) >>,
                    <<>>))
      [] url = SiteA \o P_index ->
            Ok(Soup(TRUE,
                    << Some(SiteA \o P_sitemap1), Some(P_sitemap2), Some(SiteA \o P_A),
                       None, Some(<<" ">> \o P_A2) >>,
                    <<>>, <<>>))
      [] url = SiteA \o P_sitemap1 ->
            Ok(Soup(FALSE, <<>>,
                    << UrlElem(Some(SiteA \o <<"/","a","b","o","u","t">>),
                               Some(T_2024), Some(T_weekly), Some(Num(90))),
                       UrlElem(Some(SiteA \o <<"/","p","1">>), None, None, Some(Num(30))) >>,
                    <<>>))
      [] url = SiteA \o P_sitemap2 -> Status(500)
      [] url = SiteA \o P_A ->
            Ok(Soup(TRUE, << Some(P_C), Some(P_B), Some(SiteA \o P_index) >>, <<>>, <<>>))
      [] url = SiteA \o P_A2 ->
            Ok(Soup(TRUE, << Some(SiteA \o P_C) >>, <<>>, <<>>))
      [] url = SiteA \o P_B ->
            Ok(Soup(TRUE, << Some(P_A), Some(P_D), Some(<<"D",".","x","m","l">>) >>,
                    << UrlElem(Some(SiteA \o <<"/","p">>), None, None, None) >>, <<>>))
      [] url = SiteA \o P_C ->
            Ok(Soup(FALSE, <<>>,
                    << UrlElem(Some(SiteA \o <<"/","p","1">>), None, None, None),
                       UrlElem(Some(SiteA \o <<"/","d","o","c",".","p","d","f">>), None, None, None) >>,
                    << Some(SiteA \o <<"/","p">>) >>))
      [] url = SiteA \o P_D ->
            Ok(Soup(FALSE, <<>>,
                    << UrlElem(Some(SiteA \o <<"/","p","r","i","v","a","t","e">>), None, None, None) >>,
                    <<>>))
      [] url = SiteA \o <<"/","w","p","-","s","i","t","e","m","a","p",".","x","m","l">> ->
            Ok(BrokenSoup)
      [] url = SiteA \o P_S ->
            Ok(Soup(TRUE,
                    << Some(SiteA \o P_D), Some(SiteA \o P_S), Some(<<>>), Some(SiteA \o P_sitemap1) >>,
                    <<>>, <<>>))
      [] url = SiteB \o P_ext ->
            Ok(Soup(TRUE, << Some(P_E) >>, <<>>, <<>>))
      [] url = SiteB \o P_E ->
            Ok(Soup(FALSE, <<>>,
                    << UrlElem(Some(SiteB \o <<"/","p">>), None, None, None) >>, <<>>))
      [] OTHER -> Status(404)

\* URLs whose connection may fail (connection error or timeout) on any attempt
Flaky == {SiteA \o P_robots, SiteA \o P_sitemap1, SiteB \o P_robots, SiteB \o P_sitemap}

(***************************************************************************)
(* _parse_sitemap_xml                                                      *)
(***************************************************************************)
\* `loc and loc.text`: the element exists and its text is not empty
HasText(elem) == elem # None /\ elem[1] # <<>>

nested_loc(loc) == IF HasText(loc) THEN <<strip(loc[1])>> ELSE <<>>

RECURSIVE nested_of(_)
nested_of(sitemaps) ==
    IF sitemaps = <<>> THEN <<>>
    ELSE The({nested_loc(loc) : loc \in {Head(sitemaps)}}) \o nested_of(Tail(sitemaps))

\* float(priority.text.strip()), None on ValueError; scores are in hundredths
priority_of(elem) ==
    IF elem # None /\ elem[1].num THEN Some(elem[1].val) ELSE None

text_of(elem) == IF HasText(elem) THEN Some(strip(elem[1])) ELSE None

url_entry(e, sitemap_url) ==
    IF HasText(e.loc)
    THEN << URLInfo(strip(e.loc[1]), text_of(e.lastmod), text_of(e.changefreq),
                    priority_of(e.priority), "page", sitemap_url) >>
    ELSE <<>>

RECURSIVE urls_of(_, _)
urls_of(url_elems, sitemap_url) ==
    IF url_elems = <<>> THEN <<>>
    ELSE The({url_entry(e, sitemap_url) : e \in {Head(url_elems)}})
             \o urls_of(Tail(url_elems), sitemap_url)

image_entry(loc, sitemap_url) ==
    IF HasText(loc)
    THEN << URLInfo(strip(loc[1]), None, None, None, "image", sitemap_url) >>
    ELSE <<>>

RECURSIVE images_of(_, _)
images_of(images, sitemap_url) ==
    IF images = <<>> THEN <<>>
    ELSE The({image_entry(loc, sitemap_url) : loc \in {Head(images)}})
             \o images_of(Tail(images), sitemap_url)

\* returns <<urls, nested_sitemaps>>; <<[], []>> when BeautifulSoup raises
parse_sitemap_xml(content, sitemap_url) ==
    IF content.malformed THEN << <<>>, <<>> >>
    ELSE << urls_of(content.urls, sitemap_url) \o images_of(content.images, sitemap_url),
            IF content.sitemapindex THEN nested_of(content.sitemaps) ELSE <<>> >>

(***************************************************************************)
(* _check_robots_txt: the lines of robots.txt that declare a sitemap       *)
(***************************************************************************)
\* line[8:].strip() of a line that starts with `sitemap:`, if it is not empty
declared(sitemap_url) == IF sitemap_url # <<>> THEN <<sitemap_url>> ELSE <<>>

declared_sitemap(line) ==
    IF startswith(lower(line), <<"s","i","t","e","m","a","p",":">>)
    THEN The({declared(sitemap_url) : sitemap_url \in {strip(SubSeq(line, 9, Len(line)))}})
    ELSE <<>>

RECURSIVE robots_sitemaps_of(_)
robots_sitemaps_of(lines) ==
    IF lines = <<>> THEN <<>>
    ELSE The({declared_sitemap(line) : line \in {strip(Head(lines))}})
             \o robots_sitemaps_of(Tail(lines))

(***************************************************************************)
(* _deduplicate_urls                                                       *)
(***************************************************************************)
RECURSIVE dedup_loop(_, _, _)
dedup_loop(urls, seen_urls, unique_urls) ==
    IF urls = <<>> THEN unique_urls
    ELSE IF Head(urls).url \notin seen_urls
    THEN dedup_loop(Tail(urls), seen_urls \cup {Head(urls).url}, Append(unique_urls, Head(urls)))
    ELSE dedup_loop(Tail(urls), seen_urls, unique_urls)

\* mutant of deduplicate_urls: the whole record is the key of seen_urls, not its url
RECURSIVE by_record_loop(_, _, _)
by_record_loop(urls, seen, unique_urls) ==
    IF urls = <<>> THEN unique_urls
    ELSE IF Head(urls) \notin seen
    THEN by_record_loop(Tail(urls), seen \cup {Head(urls)}, Append(unique_urls, Head(urls)))
    ELSE by_record_loop(Tail(urls), seen, unique_urls)

deduplicate_by_record(urls) == The({by_record_loop(v, {}, <<>>) : v \in {urls}})

\* mutant of deduplicate_urls: a later duplicate replaces the record kept for its url
keep_last(urls, unique_urls) ==
    [k \in 1..Len(unique_urls) |->
        urls[CHOOSE i \in 1..Len(urls) :
                 /\ urls[i].url = unique_urls[k].url
                 /\ \A j \in (i + 1)..Len(urls) : urls[j].url # unique_urls[k].url]]

deduplicate_keep_last(urls) ==
    The({keep_last(v, unique_urls) : v \in {urls}, unique_urls \in {dedup_loop(urls, {}, <<>>)}})

deduplicate_urls(urls) == The({dedup_loop(v, {}, <<>>) : v \in {urls}})

(***************************************************************************)
(* _get_url_priority, in hundredths                                        *)
(***************************************************************************)
Keywords ==
    { <<"a","b","o","u","t">>, <<"s","e","r","v","i","c","e">>,
      <<"p","r","o","d","u","c","t">>, <<"c","o","n","t","a","c","t">> }

\* len([p for p in path.split('/') if p]): the non-empty segments of the path
segments(path) ==
    Cardinality({i \in 1..Len(path) : path[i] # "/" /\ (i = 1 \/ path[i - 1] = "/")})

Min(a, b) == IF a < b THEN a ELSE b

Max(a, b) == IF a > b THEN a ELSE b

\* mutant of score: the sum is returned as it is
score_unclamped(base, path) ==
    base + (IF path \in {<<>>, <<"/">>} THEN 50 ELSE 0)
         + (IF \E k \in Keywords : contains(path, k) THEN 20 ELSE 0)
         - segments(path) * 10

\* the score for a base priority and the lowercased path
score(base, path) ==
    Min(100, Max(0, base + (IF path \in {<<>>, <<"/">>} THEN 50 ELSE 0)
                         + (IF \E k \in Keywords : contains(path, k) THEN 20 ELSE 0)
                         - segments(path) * 10))

\* `url_info.priority or 0.5`
base_priority(priority) == IF priority # None /\ priority[1] # 0 THEN priority[1] ELSE 50

get_url_priority(url_info) ==
    The({score(base, path) : base \in {base_priority(url_info.priority)},
                             path \in {lower(urlparse(url_info.url).path)}})

(***************************************************************************)
(* _filter_urls                                                            *)
(***************************************************************************)
\* mutant of exclude_extensions: documents are let through, images and assets are not
extensions_without_pdf ==
    { <<".","j","p","g">>, <<".","j","p","e","g">>, <<".","p","n","g">>,
      <<".","g","i","f">>, <<".","b","m","p">>, <<".","c","s","s">>, <<".","j","s">>,
      <<".","i","c","o">>, <<".","x","m","l">>, <<".","t","x","t">>, <<".","z","i","p">> }

exclude_extensions ==
    { <<".","p","d","f">>, <<".","j","p","g">>, <<".","j","p","e","g">>, <<".","p","n","g">>,
      <<".","g","i","f">>, <<".","b","m","p">>, <<".","c","s","s">>, <<".","j","s">>,
      <<".","i","c","o">>, <<".","x","m","l">>, <<".","t","x","t">>, <<".","z","i","p">> }

exclude_patterns ==
    { <<"a","d","m","i","n">>, <<"w","p","-","a","d","m","i","n">>, <<"l","o","g","i","n">>,
      <<"r","e","g","i","s","t","e","r">>, <<"a","p","i","/">> }

MaxUrlLen == 200

\* mutant of passes: a netloc that ends with the domain's netloc is let through
passes_subdomains(url, netloc, path_lower, domain_netloc) ==
    /\ endswith(netloc, domain_netloc)
    /\ ~\E ext \in exclude_extensions : endswith(path_lower, ext)
    /\ ~\E pattern \in exclude_patterns : contains(path_lower, pattern)
    /\ Len(url) <= MaxUrlLen

\* the tests of the for loop on the netloc and the lowercased path
passes(url, netloc, path_lower, domain_netloc) ==
    /\ netloc = domain_netloc
    /\ ~\E ext \in exclude_extensions : endswith(path_lower, ext)
    /\ ~\E pattern \in exclude_patterns : contains(path_lower, pattern)
    /\ Len(url) <= MaxUrlLen

parsed_passes(url, parsed_url, domain_netloc) ==
    The({passes(url, parsed_url.netloc, path_lower, domain_netloc) :
            path_lower \in {lower(parsed_url.path)}})

\* the body of the for loop: TRUE when no `continue` is taken
keeps(url_info, domain_netloc) ==
    The({parsed_passes(url_info.url, parsed_url, domain_netloc) :
            parsed_url \in {urlparse(url_info.url)}})

\* x placed behind the n elements whose score is not below its own
insert_at(sorted, x, n) == SubSeq(sorted, 1, n) \o <<x>> \o SubSeq(sorted, n + 1, Len(sorted))

\* mutant of insert_sorted: x is placed before the elements of equal score
insert_before_equals(sorted, x, key) ==
    insert_at(sorted, x,
              Cardinality({i \in 1..Len(sorted) : get_url_priority(sorted[i]) > key}))

insert_sorted(sorted, x, key) ==
    insert_at(sorted, x,
              Cardinality({i \in 1..Len(sorted) : get_url_priority(sorted[i]) >= key}))

\* list.sort(key=_get_url_priority, reverse=True): stable, descending
RECURSIVE sort_by_priority(_)
sort_by_priority(urls) ==
    IF urls = <<>> THEN <<>>
    ELSE The({insert_sorted(sorted, urls[Len(urls)], key) :
                 sorted \in {The({sort_by_priority(front) :
                                     front \in {SubSeq(urls, 1, Len(urls) - 1)}})},
                 key \in {get_url_priority(urls[Len(urls)])}})

RECURSIVE filter_loop(_, _)
filter_loop(urls, domain_netloc) ==
    IF urls = <<>> THEN <<>>
    ELSE (IF keeps(Head(urls), domain_netloc) THEN <<Head(urls)>> ELSE <<>>)
             \o filter_loop(Tail(urls), domain_netloc)

filtered_of(urls, domain_netloc) ==
    The({sort_by_priority(filtered_urls) : filtered_urls \in {filter_loop(urls, domain_netloc)}})

filter_urls(urls, domain) ==
    The({filtered_of(v, domain_netloc) : v \in {urls}, domain_netloc \in {urlparse(domain).netloc}})

(***************************************************************************)
(* Bounds of the model                                                     *)
(***************************************************************************)
\* parse_website is called with max_depth in 0..MaxDepthArg
MaxDepthArg == 3

\* the parser is constructed with max_concurrent in 1..MaxConcurrent
MaxConcurrent == 2

\* the pipeline harness feeds lists of at most MaxListLen records
MaxListLen == 3

\* one parser object serves at most MaxCalls calls of parse_website
MaxCalls == 2

\* the score harness feeds priority hints from -MaxHint to MaxHint twentieths
MaxHint == 30

(***************************************************************************)
(* State                                                                   *)
(***************************************************************************)
VARIABLES
    pc,               \* where parse_website stands: idle, robots, robots_backoff,
                      \* gather, done, raised, cancelled
    calls,            \* history: the calls of parse_website made on this parser
    stale,            \* history: what earlier calls had left on the parser (see left_over)
    max_concurrent,   \* self.max_concurrent
    parsed_sitemaps,  \* self.parsed_sitemaps
    all_urls,         \* self.all_urls
    website_url,      \* argument of parse_website
    max_depth,        \* argument of parse_website
    domain,           \* local of parse_website
    robots_attempt,   \* attempt number of the robots.txt fetch
    pending_sitemaps, \* local of parse_website: the frontier
    depth,            \* local of parse_website
    semaphore,        \* value of the level's asyncio.Semaphore
    tasks,            \* the level's parse_with_semaphore coroutines, by position
    result,           \* the list parse_website returned
    fetch_log,        \* history: sitemap URL -> the depths at which it was fetched
    fetch_end,        \* history: sitemap URL -> how its fetches ended
    robots_end,       \* history: how the robots.txt fetch ended
    seeds,            \* history: the seed frontier of the call, list(sitemap_urls) of line 246
    p_pc,             \* pipeline harness: start, deduplicated, filtered, returned
    p_in,             \* pipeline harness: the input list
    p_out,            \* pipeline harness: the output list
    p_score,          \* score harness: what _get_url_priority returned, None before
    visited,          \* synchronous parser: self.visited
    robots_rules,     \* synchronous parser: self._robots_rules, None while the attribute is unset
    frames,           \* synchronous parser: the calls of parse that have not returned, outermost first
    s_pc,             \* synchronous parser: idle, fetching (in session.get), sleeping (in time.sleep)
    fetch_attempt,    \* synchronous parser: the loop variable of fetch
    parse_result,     \* synchronous parser: what the last outermost parse gave, None while it runs
    parse_calls,      \* history: the outermost calls of parse made on this parser
    call,             \* history: the target of the last outermost call, whether the fetch of that
                      \* target had raised before, and the GETs issued during the call
    raised_on         \* history: the targets whose fetch raised after the last attempt

vars == <<pc, calls, stale, max_concurrent, parsed_sitemaps, all_urls, website_url, max_depth, domain,
          robots_attempt, pending_sitemaps, depth, semaphore, tasks, result, fetch_log,
          fetch_end, robots_end, seeds, p_pc, p_in, p_out, p_score, visited, robots_rules, frames,
          s_pc, fetch_attempt, parse_result, parse_calls, call, raised_on>>

\* what a call of parse_website is given and never changes
call_vars == <<max_concurrent, website_url, max_depth, domain>>

engine_vars == <<pc, calls, stale, max_concurrent, parsed_sitemaps, all_urls, website_url, max_depth,
                 domain, robots_attempt, pending_sitemaps, depth, semaphore, tasks, result,
                 fetch_log, fetch_end, robots_end, seeds>>

pipeline_vars == <<p_pc, p_in, p_out, p_score>>

session_vars == <<calls, stale>>

sync_vars == <<visited, robots_rules, frames, s_pc, fetch_attempt, parse_result, parse_calls,
               call, raised_on>>

\* the websites parse_website is called for: SiteA serves sitemaps, SiteB serves none
Websites == {SiteA \o <<"/","h","o","m","e">>, SiteB}

Range(f) == {f[i] : i \in DOMAIN f}

(***************************************************************************)
(* _fetch_content under @retry(stop=stop_after_attempt(3))                 *)
(***************************************************************************)
\* stop_after_attempt(3)
MaxAttempts == 3

\* how one GET can end: the server's answer, or a connection error / timeout
Outcomes(url) == {"response"} \cup (IF url \in Flaky THEN {"exception"} ELSE {})

\* the body of _fetch_content on the server's answer: the text, or None
on_response(response) ==
    IF response.status = 200 THEN [kind |-> "content", content |-> response.body]
    ELSE [kind |-> "none", content |-> <<>>]

\* one run of the body of _fetch_content: the text, None, or the re-raised exception
fetch_content(url, outcome) ==
    IF outcome = "exception" THEN [kind |-> "raise", content |-> <<>>]
    ELSE The({on_response(response) : response \in {Site(url)}})

\* tenacity: a raising attempt is retried unless it was the last one
retries(fetched, attempt) == fetched.kind = "raise" /\ attempt < MaxAttempts

(***************************************************************************)
(* _parse_single_sitemap after its await: what the coroutine returns for   *)
(* the outcome of _fetch_content (a RetryError after the last attempt)     *)
(***************************************************************************)
Returned(info) == [kind |-> "info", info |-> info]

Raised == [kind |-> "exception", info |-> SitemapInfo(<<>>, <<>>, <<>>, None)]

parsed_info(sitemap_url, parsed) ==
    Returned(SitemapInfo(sitemap_url, parsed[1], parsed[2], None))

parse_single_sitemap(sitemap_url, fetched) ==
    IF fetched.kind = "raise"
    THEN Returned(SitemapInfo(sitemap_url, <<>>, <<>>, Some("parse failed")))
    ELSE IF fetched.kind = "none"
    THEN Returned(SitemapInfo(sitemap_url, <<>>, <<>>, Some("no content")))
    ELSE The({parsed_info(sitemap_url, parsed) :
                 parsed \in {parse_sitemap_xml(fetched.content, sitemap_url)}})

\* the early return for a sitemap that is already in parsed_sitemaps
already_parsed(sitemap_url) == Returned(SitemapInfo(sitemap_url, <<>>, <<>>, None))

(***************************************************************************)
(* _check_robots_txt: the declared sitemaps, [] when the fetch failed      *)
(***************************************************************************)
\* mutant of check_robots_txt: the RetryError of the fetch is not caught
check_robots_txt_unguarded(fetched) ==
    IF fetched.kind = "content"
    THEN [raised |-> FALSE, sitemaps |-> robots_sitemaps_of(fetched.content)]
    ELSE [raised |-> fetched.kind = "raise", sitemaps |-> <<>>]

check_robots_txt(fetched) ==
    IF fetched.kind = "content"
    THEN [raised |-> FALSE, sitemaps |-> robots_sitemaps_of(fetched.content)]
    ELSE [raised |-> FALSE, sitemaps |-> <<>>]

(***************************************************************************)
(* parse_website                                                           *)
(***************************************************************************)
\* `if not sitemap_urls: sitemap_urls.add(...)`, lines 242-243
or_default(found, dom) == IF found = {} THEN {urljoin(dom, common_paths[1])} ELSE found

\* mutant of seed_urls: the common paths are tried only when robots.txt declares nothing
seed_urls_robots_only(robots_sitemaps, dom) ==
    The({or_default(found, dom) : found \in {Range(robots_sitemaps)}})

\* the set sitemap_urls of lines 231-243
seed_urls(robots_sitemaps, dom) ==
    The({or_default(found, dom) :
            found \in {Range(robots_sitemaps) \cup Range(discover_sitemap_urls(dom))}})

\* mutant of first_occurrences: list() of a list, which keeps every occurrence
every_occurrence(seq, seen) == seq

RECURSIVE first_occurrences(_, _)
first_occurrences(seq, seen) ==
    IF seq = <<>> THEN <<>>
    ELSE IF Head(seq) \in seen THEN first_occurrences(Tail(seq), seen)
    ELSE <<Head(seq)>> \o first_occurrences(Tail(seq), seen \cup {Head(seq)})

Reverse(seq) == [i \in 1..Len(seq) |-> seq[Len(seq) + 1 - i]]

\* list(sitemap_urls): a set has no order of its own; two of its orders are modelled
SeedOrders == {"forward", "backward"}

RECURSIVE members_in_order(_, _)
members_in_order(candidates, set) ==
    IF candidates = <<>> THEN <<>>
    ELSE (IF Head(candidates) \in set THEN <<Head(candidates)>> ELSE <<>>)
             \o members_in_order(Tail(candidates), set)

in_order(list, order) == IF order = "forward" THEN list ELSE Reverse(list)

distinct_members(members, order) ==
    The({in_order(list, order) : list \in {first_occurrences(members, {})}})

\* pending_sitemaps = list(sitemap_urls), line 246
list_of(sitemap_urls, candidates, order) ==
    The({distinct_members(members, order) :
            members \in {members_in_order(candidates, sitemap_urls)}})

seed_list(robots_sitemaps, dom, order) ==
    The({list_of(sitemap_urls, candidates, order) :
            sitemap_urls \in {seed_urls(robots_sitemaps, dom)},
            candidates \in {robots_sitemaps \o discover_sitemap_urls(dom)
                                \o <<urljoin(dom, common_paths[1])>>}})

\* lines 277-281 for one document
RECURSIVE new_children(_, _, _)
new_children(nested_sitemaps, dom, parsed) ==
    IF nested_sitemaps = <<>> THEN <<>>
    ELSE The({IF normalized_url \notin parsed THEN <<normalized_url>> ELSE <<>> :
                 normalized_url \in {normalize_url(Head(nested_sitemaps), dom)}})
             \o new_children(Tail(nested_sitemaps), dom, parsed)

\* the tests of lines 265 and 270: the result is skipped
skipped(out) == out.kind = "exception" \/ out.info.error # None

\* mutant of merge: a failed document ends the loop (break for continue)
RECURSIVE merge_abort(_, _, _, _, _)
merge_abort(outs, dom, parsed, urls, next_level_sitemaps) ==
    IF outs = <<>> \/ skipped(Head(outs))
    THEN [all_urls |-> urls, next_level_sitemaps |-> next_level_sitemaps]
    ELSE merge_abort(Tail(outs), dom, parsed, urls \o Head(outs).info.urls,
                     next_level_sitemaps
                         \o new_children(Head(outs).info.nested_sitemaps, dom, parsed))

\* lines 263-281: the results of a level, in task order
RECURSIVE merge(_, _, _, _, _)
merge(outs, dom, parsed, urls, next_level_sitemaps) ==
    IF outs = <<>> THEN [all_urls |-> urls, next_level_sitemaps |-> next_level_sitemaps]
    ELSE IF skipped(Head(outs))
    THEN merge(Tail(outs), dom, parsed, urls, next_level_sitemaps)
    ELSE merge(Tail(outs), dom, parsed, urls \o Head(outs).info.urls,
               next_level_sitemaps \o new_children(Head(outs).info.nested_sitemaps, dom, parsed))

Waiting == [st |-> "waiting", attempt |-> 0, out |-> None]

\* mutant of loop_continues: the depth is not tested
loop_unbounded(pend, d, md) == pend # <<>>

\* mutant of loop_continues: one level too many
loop_one_more(pend, d, md) == pend # <<>> /\ d <= md

\* the while test of line 249
loop_continues(pend, d, md) == pend # <<>> /\ d < md

\* the head of the while loop, then lines 252-260 or lines 286-291
enter_level(pend, d, urls) ==
    /\ pending_sitemaps' = pend
    /\ depth' = d
    /\ all_urls' = urls
    /\ IF loop_continues(pend, d, max_depth)
       THEN IF max_concurrent < 0
            THEN \* asyncio.Semaphore raises ValueError
                 /\ pc' = "raised"
                 /\ UNCHANGED <<semaphore, tasks, result>>
            ELSE /\ pc' = "gather"
                 /\ semaphore' = max_concurrent
                 /\ tasks' = [i \in 1..Len(pend) |-> Waiting]
                 /\ UNCHANGED result
       ELSE /\ pc' = "done"
            /\ \E unique_urls \in {deduplicate_urls(urls)} :
                   result' = filter_urls(unique_urls, domain)
            /\ tasks' = <<>>
            /\ UNCHANGED semaphore

\* mutant of cleared_set: the visited set of the call before is kept
kept_set(set) == set

\* self.parsed_sitemaps.clear(), line 227
cleared_set(set) == {}

\* mutant of cleared_list: the records of the call before are kept
kept_list(list) == list

\* self.all_urls.clear(), line 228
cleared_list(list) == <<>>

\* what the call finds on the parser when it starts: a visited set, records
left_over(known, records) ==
    (IF known # {} THEN {"visited"} ELSE {}) \cup (IF records # <<>> THEN {"records"} ELSE {})

\* a call of parse_website on a parser that runs no call: lines 223-234, up to the first
\* GET of robots.txt; the locals of the new frame and the history of the call start afresh
Begin(url, md) ==
    /\ pc \in {"idle", "done", "raised", "cancelled"}
    /\ calls < MaxCalls
    /\ calls' = calls + 1
    /\ website_url' = url
    /\ max_depth' = md
    /\ domain' = get_domain(url)
    /\ parsed_sitemaps' = cleared_set(parsed_sitemaps)
    /\ all_urls' = cleared_list(all_urls)
    /\ robots_attempt' = 1
    /\ pc' = "robots"
    /\ pending_sitemaps' = <<>>
    /\ depth' = 0
    /\ semaphore' = 0
    /\ tasks' = <<>>
    /\ result' = <<>>
    /\ fetch_log' = <<>>
    /\ fetch_end' = <<>>
    /\ robots_end' = ""
    /\ seeds' = <<>>
    /\ stale' = stale \cup left_over(parsed_sitemaps, all_urls)
    /\ UNCHANGED max_concurrent
    /\ UNCHANGED <<pipeline_vars, sync_vars>>

\* lines 234-260 once the robots.txt fetch has ended for good
after_robots(robots, order) ==
    IF robots.raised
    THEN /\ pc' = "raised"
         /\ UNCHANGED <<all_urls, pending_sitemaps, depth, semaphore, tasks, result, seeds>>
    ELSE \E sitemap_urls \in {seed_list(robots.sitemaps, domain, order)} :
             /\ seeds' = sitemap_urls
             /\ enter_level(sitemap_urls, 0, all_urls)

robots_step(fetched, order) ==
    IF retries(fetched, robots_attempt)
    THEN /\ pc' = "robots_backoff"
         /\ UNCHANGED <<all_urls, pending_sitemaps, depth, semaphore, tasks, result,
                        robots_end, seeds>>
    ELSE /\ robots_end' = fetched.kind
         /\ \E robots \in {check_robots_txt(fetched)} : after_robots(robots, order)

\* a GET of robots.txt ends; lines 234-260 when _check_robots_txt returns
RobotsFetched(outcome, order) ==
    /\ pc = "robots"
    /\ outcome \in Outcomes(urljoin(domain, P_robots))
    /\ \E fetched \in {fetch_content(urljoin(domain, P_robots), outcome)} :
           robots_step(fetched, order)
    /\ UNCHANGED <<call_vars, parsed_sitemaps, robots_attempt, fetch_log, fetch_end>>
    /\ UNCHANGED <<pipeline_vars, session_vars, sync_vars>>

\* the backoff sleep of the robots.txt fetch ends
RobotsRetry ==
    /\ pc = "robots_backoff"
    /\ pc' = "robots"
    /\ robots_attempt' = robots_attempt + 1
    /\ UNCHANGED <<call_vars, parsed_sitemaps, all_urls, pending_sitemaps, depth, semaphore,
                   tasks, result, fetch_log, fetch_end, robots_end, seeds>>
    /\ UNCHANGED <<pipeline_vars, session_vars, sync_vars>>

\* history: one more entry x for url
logged(log, url, x) ==
    [u \in DOMAIN log \cup {url} |->
        IF u = url THEN (IF u \in DOMAIN log THEN log[u] ELSE <<>>) \o <<x>> ELSE log[u]]

\* mutant of is_parsed: the visited set is not consulted
is_parsed_unchecked(sitemap_url, parsed) == FALSE

\* `sitemap_url in self.parsed_sitemaps`, line 170
is_parsed(sitemap_url, parsed) == sitemap_url \in parsed

\* mutant of can_acquire: the semaphore never blocks
can_acquire_always(value) == TRUE

\* the semaphore lets a task in, line 256
can_acquire(value) == value > 0

\* mutant of is_next: the semaphore wakes its last waiter first
is_next_last(i) == \A j \in (i + 1)..Len(tasks) : tasks[j].st # "waiting"

\* gather starts the coroutines in list order and the semaphore wakes its waiters
\* first-in first-out: a task enters only when every earlier one has
is_next(i) == \A j \in 1..(i - 1) : tasks[j].st # "waiting"

\* task i enters `async with semaphore` and runs lines 170-177 up to its first GET
TaskStart(i) ==
    /\ pc = "gather"
    /\ i \in 1..Len(tasks)
    /\ tasks[i].st = "waiting"
    /\ is_next(i)
    /\ can_acquire(semaphore)
    /\ IF is_parsed(pending_sitemaps[i], parsed_sitemaps)
       THEN /\ tasks' = [tasks EXCEPT ![i] =
                            [st |-> "done", attempt |-> 0,
                             out |-> Some(already_parsed(pending_sitemaps[i]))]]
            /\ UNCHANGED <<semaphore, parsed_sitemaps, fetch_log>>
       ELSE /\ tasks' = [tasks EXCEPT ![i] = [st |-> "fetching", attempt |-> 1, out |-> None]]
            /\ semaphore' = semaphore - 1
            /\ parsed_sitemaps' = parsed_sitemaps \cup {pending_sitemaps[i]}
            /\ fetch_log' = logged(fetch_log, pending_sitemaps[i], depth)
    /\ UNCHANGED <<pc, call_vars, all_urls, robots_attempt, pending_sitemaps, depth, result,
                   fetch_end, robots_end, seeds>>
    /\ UNCHANGED <<pipeline_vars, session_vars, sync_vars>>

\* mutant of release: the permit is not given back
release_lost(value) == value

\* the exit of `async with semaphore`, line 256, on any return of line 257
release(value) == value + 1

task_step(i, fetched) ==
    IF retries(fetched, tasks[i].attempt)
    THEN /\ tasks' = [tasks EXCEPT ![i].st = "backoff"]
         /\ UNCHANGED <<semaphore, fetch_end>>
    ELSE /\ \E out \in {parse_single_sitemap(pending_sitemaps[i], fetched)} :
                tasks' = [tasks EXCEPT ![i] =
                             [st |-> "done", attempt |-> @.attempt, out |-> Some(out)]]
         /\ semaphore' = release(semaphore)
         /\ fetch_end' = logged(fetch_end, pending_sitemaps[i], fetched.kind)

\* a GET of task i ends: retry, or lines 178-199 and the release of the semaphore
TaskFetched(i, outcome) ==
    /\ pc = "gather"
    /\ i \in 1..Len(tasks)
    /\ tasks[i].st = "fetching"
    /\ outcome \in Outcomes(pending_sitemaps[i])
    /\ \E fetched \in {fetch_content(pending_sitemaps[i], outcome)} : task_step(i, fetched)
    /\ UNCHANGED <<pc, call_vars, parsed_sitemaps, all_urls, robots_attempt,
                   pending_sitemaps, depth, result, fetch_log, robots_end, seeds>>
    /\ UNCHANGED <<pipeline_vars, session_vars, sync_vars>>

\* the backoff sleep of task i ends and the next attempt starts
TaskRetry(i) ==
    /\ pc = "gather"
    /\ i \in 1..Len(tasks)
    /\ tasks[i].st = "backoff"
    /\ tasks' = [tasks EXCEPT ![i] = [st |-> "fetching", attempt |-> @.attempt + 1, out |-> None]]
    /\ UNCHANGED <<pc, call_vars, parsed_sitemaps, all_urls, robots_attempt,
                   pending_sitemaps, depth, semaphore, result, fetch_log, fetch_end,
                   robots_end, seeds>>
    /\ UNCHANGED <<pipeline_vars, session_vars, sync_vars>>

next_level(merged) == enter_level(merged.next_level_sitemaps, depth + 1, merged.all_urls)

\* mutant of gather: the await ends with the first task that ends, the tasks still
\* running are given up and count as exceptions
gather_first_completed(ts) ==
    [returned |-> \E i \in 1..Len(ts) : ts[i].st = "done",
     results |-> [i \in 1..Len(ts) |-> IF ts[i].st = "done" THEN ts[i].out ELSE Some(Raised)]]

\* await asyncio.gather(*tasks, return_exceptions=True), line 260: it returns when every
\* task has ended, with the results by position
gather(ts) ==
    [returned |-> \A i \in 1..Len(ts) : ts[i].st = "done",
     results |-> [i \in 1..Len(ts) |-> ts[i].out]]

\* asyncio.gather returns: lines 262-284, then the next level or lines 286-291
GatherReturns ==
    /\ pc = "gather"
    /\ \E got \in {gather(tasks)} :
           /\ got.returned
           /\ \E sitemap_infos \in {[i \in 1..Len(tasks) |-> got.results[i][1]]} :
                  \E merged \in {merge(sitemap_infos, domain, parsed_sitemaps, all_urls, <<>>)} :
                      next_level(merged)
    /\ UNCHANGED <<call_vars, parsed_sitemaps, robots_attempt, fetch_log, fetch_end,
                   robots_end, seeds>>
    /\ UNCHANGED <<pipeline_vars, session_vars, sync_vars>>

\* no synchronous parser is in use
SyncOff ==
    /\ visited = {}
    /\ robots_rules = <<>>
    /\ frames = <<>>
    /\ s_pc = "off"
    /\ fetch_attempt = 0
    /\ parse_result = <<>>
    /\ parse_calls = 0
    /\ call = [target |-> <<>>, failed_before |-> FALSE, gets |-> 0]
    /\ raised_on = {}

Init ==
    /\ pc = "idle"
    /\ calls = 0
    /\ stale = {}
    /\ max_concurrent \in 1..MaxConcurrent
    /\ parsed_sitemaps = {}
    /\ all_urls = <<>>
    /\ website_url = <<>>
    /\ max_depth = 0
    /\ domain = <<>>
    /\ robots_attempt = 0
    /\ pending_sitemaps = <<>>
    /\ depth = 0
    /\ semaphore = 0
    /\ tasks = <<>>
    /\ result = <<>>
    /\ fetch_log = <<>>
    /\ fetch_end = <<>>
    /\ robots_end = ""
    /\ seeds = <<>>
    /\ p_pc = "off"
    /\ p_in = <<>>
    /\ p_out = <<>>
    /\ p_score = None
    /\ SyncOff

Next ==
    \/ \E url \in Websites, md \in 0..MaxDepthArg : Begin(url, md)
    \/ \E outcome \in {"response", "exception"}, order \in SeedOrders :
           RobotsFetched(outcome, order)
    \/ RobotsRetry
    \/ \E i \in 1..Len(tasks) : TaskStart(i)
    \/ \E i \in 1..Len(tasks), outcome \in {"response", "exception"} : TaskFetched(i, outcome)
    \/ \E i \in 1..Len(tasks) : TaskRetry(i)
    \/ GatherReturns

Spec == Init /\ [][Next]_vars

\* the event loop runs every ready coroutine and every GET ends (ClientTimeout)
FairSpec == Spec /\ WF_vars(Next)

(***************************************************************************)
(* The same parser under any configuration and under cancellation          *)
(***************************************************************************)
\* a coroutine that has not ended receives CancelledError, which no `except
\* Exception` of the parser catches (asyncio of Python 3.8 and later)
abandoned(task) ==
    IF task.st = "done" THEN task
    ELSE [st |-> "cancelled", attempt |-> task.attempt, out |-> None]

\* the permits that the abandoned tasks give back when they leave `async with`
released(ts) == Cardinality({i \in 1..Len(ts) : ts[i].st \in {"fetching", "backoff"}})

\* what the cancellation interrupts: a call that had accumulated records, fetches in flight
interrupted(records, ts) ==
    (IF records # <<>> THEN {"cancelled"} ELSE {}) \cup (IF released(ts) > 0 THEN {"abandoned"} ELSE {})

\* the caller cancels the call while it awaits the robots.txt fetch (line 234) or the
\* gather of a level (line 260); self.all_urls and self.parsed_sitemaps stay as they are
Cancel ==
    /\ pc \in {"robots", "robots_backoff", "gather"}
    /\ pc' = "cancelled"
    /\ tasks' = [i \in 1..Len(tasks) |-> abandoned(tasks[i])]
    /\ semaphore' = semaphore + released(tasks)
    /\ stale' = stale \cup interrupted(all_urls, tasks)
    /\ UNCHANGED <<calls, call_vars, parsed_sitemaps, all_urls, robots_attempt,
                   pending_sitemaps, depth, result, fetch_log, fetch_end, robots_end, seeds>>
    /\ UNCHANGED <<pipeline_vars, sync_vars>>

\* the parser is constructed with any max_concurrent from -1 to MaxConcurrent
OpenInit ==
    /\ pc = "idle"
    /\ calls = 0
    /\ stale = {}
    /\ max_concurrent \in (0 - 1)..MaxConcurrent
    /\ parsed_sitemaps = {}
    /\ all_urls = <<>>
    /\ website_url = <<>>
    /\ max_depth = 0
    /\ domain = <<>>
    /\ robots_attempt = 0
    /\ pending_sitemaps = <<>>
    /\ depth = 0
    /\ semaphore = 0
    /\ tasks = <<>>
    /\ result = <<>>
    /\ fetch_log = <<>>
    /\ fetch_end = <<>>
    /\ robots_end = ""
    /\ seeds = <<>>
    /\ p_pc = "off"
    /\ p_in = <<>>
    /\ p_out = <<>>
    /\ p_score = None
    /\ SyncOff

\* parse_website is also called with a negative max_depth, and may be cancelled
OpenNext ==
    \/ Next
    \/ \E url \in Websites : Begin(url, 0 - 1)
    \/ Cancel

OpenSpec == OpenInit /\ [][OpenNext]_vars

(***************************************************************************)
(* Pipeline harness: _deduplicate_urls and _filter_urls on every list of   *)
(* at most MaxListLen records of PageUniverse, for every website           *)
(***************************************************************************)
Page(url, priority, lastmod) ==
    URLInfo(url, lastmod, None, priority, "page", SiteA \o P_sitemap)

PageUniverse ==
    { Page(SiteA \o <<"/">>, None, None),
      Page(SiteA \o <<"/","a","b","o","u","t">>, None, None),
      Page(SiteA \o <<"/","a","b","o","u","t">>, Some(90), Some(T_2024)),
      Page(<<"h","t","t","p","s",":","/","/","w",".","a",".","c">> \o <<"/","p">>, None, None),
      Page(<<"h","t","t","p","s",":","/","/","A",".","c">> \o <<"/","p">>, None, None),
      Page(SiteA \o <<":","8","0">> \o <<"/","p">>, None, None),
      Page(SiteB \o <<"/","p">>, Some(90), None),
      Page(SiteA \o <<"/","d","o","c",".","p","d","f">>, None, None),
      Page(SiteA \o <<"/","I","M","G",".","J","P","G","?","v","=","1">>, None, None),
      Page(SiteA \o <<"/","p","r","i","v","a","t","e","/","x">>, Some(30), None) }

PipelineInit ==
    /\ pc = "off"
    /\ calls = 0
    /\ stale = {}
    /\ max_concurrent = 1
    /\ parsed_sitemaps = {}
    /\ all_urls = <<>>
    /\ website_url \in Websites
    /\ max_depth = 0
    /\ domain = <<>>
    /\ robots_attempt = 0
    /\ pending_sitemaps = <<>>
    /\ depth = 0
    /\ semaphore = 0
    /\ tasks = <<>>
    /\ result = <<>>
    /\ fetch_log = <<>>
    /\ fetch_end = <<>>
    /\ robots_end = ""
    /\ seeds = <<>>
    /\ p_pc = "start"
    /\ p_in \in UNION {[1..n -> PageUniverse] : n \in 0..MaxListLen}
    /\ p_out = <<>>
    /\ p_score = None
    /\ SyncOff

\* unique_urls = self._deduplicate_urls(self.all_urls), line 287
Deduplicate ==
    /\ p_pc = "start"
    /\ p_out' = deduplicate_urls(p_in)
    /\ p_pc' = "deduplicated"
    /\ UNCHANGED <<p_in, p_score, engine_vars, sync_vars>>

\* filtered_urls = self._filter_urls(unique_urls, domain), line 288
FilterUnique ==
    /\ p_pc = "deduplicated"
    /\ \E dom \in {get_domain(website_url)} : p_out' = filter_urls(p_out, dom)
    /\ p_pc' = "returned"
    /\ UNCHANGED <<p_in, p_score, engine_vars, sync_vars>>

\* _filter_urls called on a list as it is
Filter ==
    /\ p_pc = "start"
    /\ \E dom \in {get_domain(website_url)} : p_out' = filter_urls(p_in, dom)
    /\ p_pc' = "filtered"
    /\ UNCHANGED <<p_in, p_score, engine_vars, sync_vars>>

PipelineNext == Deduplicate \/ FilterUnique \/ Filter

PipelineSpec == PipelineInit /\ [][PipelineNext]_vars

(***************************************************************************)
(* Score harness: _get_url_priority on one record, for every hint of Hints *)
(* and every URL of ScoreUrls                                              *)
(***************************************************************************)
\* url_info.priority in hundredths: absent, or a float from -1.5 to 1.5
Hints == {None} \cup {Some(5 * h) : h \in (0 - MaxHint)..MaxHint}

ScoreUrls ==
    { SiteA,
      SiteA \o <<"/">>,
      SiteA \o <<"/","p">>,
      SiteA \o <<"/","a","b","o","u","t">>,
      SiteA \o <<"/","A","b","o","u","t","/","U","s">>,
      SiteA \o <<"/","s","h","o","p","/","p","r","o","d","u","c","t","s","?","c","o","n","t","a","c","t">>,
      SiteA \o <<"/","/","x","/","/">>,
      SiteA \o <<"/","a","/","b","/","c","/","d","/","e","/","f">> }

ScoreInit ==
    /\ pc = "off"
    /\ calls = 0
    /\ stale = {}
    /\ max_concurrent = 1
    /\ parsed_sitemaps = {}
    /\ all_urls = <<>>
    /\ website_url = SiteA
    /\ max_depth = 0
    /\ domain = <<>>
    /\ robots_attempt = 0
    /\ pending_sitemaps = <<>>
    /\ depth = 0
    /\ semaphore = 0
    /\ tasks = <<>>
    /\ result = <<>>
    /\ fetch_log = <<>>
    /\ fetch_end = <<>>
    /\ robots_end = ""
    /\ seeds = <<>>
    /\ p_pc = "unscored"
    /\ p_in \in {<<Page(url, hint, None)>> : url \in ScoreUrls, hint \in Hints}
    /\ p_out = <<>>
    /\ p_score = None
    /\ SyncOff

\* _get_url_priority(url_info), as the sort of line 339 calls it
Score ==
    /\ p_pc = "unscored"
    /\ p_score' = Some(get_url_priority(p_in[1]))
    /\ p_pc' = "scored"
    /\ UNCHANGED <<p_in, p_out, engine_vars, sync_vars>>

ScoreSpec == ScoreInit /\ [][Score]_vars

(***************************************************************************)
(* The Disallow rules of a robots.txt, read as the synchronous parser of   *)
(* the repository reads them (_load_robots)                                *)
(***************************************************************************)
disallowed(line) ==
    IF startswith(lower(line), <<"d","i","s","a","l","l","o","w",":">>)
    THEN {strip(SubSeq(line, 10, Len(line)))}
    ELSE {}

DisallowPrefixes(lines) == UNION {disallowed(lines[i]) : i \in 1..Len(lines)}

(***************************************************************************)
(* The synchronous SitemapParser of src/src/sitemap_parser.py: parse calls *)
(* itself for every child of an index, fetch retries in a loop             *)
(***************************************************************************)
\* SitemapParser(base_url): the site the parser is made for
self_base_url == SiteA

\* the dataclass default of max_retries
max_retries == 3

MaxParseCalls == 3

\* s.rstrip('/')
RECURSIVE rstrip_slash(_)
rstrip_slash(s) ==
    IF s # <<>> /\ s[Len(s)] = "/" THEN rstrip_slash(SubSeq(s, 1, Len(s) - 1)) ELSE s

\* line 53: `url or f"{self.base_url.rstrip('/')}/sitemap.xml"`, url None or a string
target_of(url) ==
    IF url = None \/ url[1] = <<>> THEN rstrip_slash(self_base_url) \o P_sitemap ELSE url[1]

\* mutant of visit: the target is not recorded
visit_not(seen, target) == seen

\* self.visited.add(target), line 56
visit(seen, target) == seen \cup {target}

\* one pass of the try block of fetch: the text, or a RequestException (a status that
\* raise_for_status refuses, a connection error, a timeout)
get_text(url, outcome) ==
    IF outcome = "response" /\ Site(url).status = 200
    THEN [ok |-> TRUE, text |-> Site(url).body]
    ELSE [ok |-> FALSE, text |-> <<>>]

\* the texts of soup.find_all("loc"), stripped: the <loc> of the <sitemap> and <url>
\* elements (an <image:loc> has another name)
RECURSIVE loc_texts(_)
loc_texts(locs) ==
    IF locs = <<>> THEN <<>>
    ELSE (IF Head(locs) # None THEN <<strip(Head(locs)[1])>> ELSE <<>>) \o loc_texts(Tail(locs))

find_all_loc(content) ==
    loc_texts(content.sitemaps \o [i \in 1..Len(content.urls) |-> content.urls[i].loc])

\* _load_robots, lines 89-97: the rules of robots.txt, none when the GET fails
loaded_rules(outcome) ==
    The({IF outcome = "response" /\ response.status = 200
         THEN DisallowPrefixes(response.body) ELSE {} :
            response \in {Site(rstrip_slash(self_base_url) \o P_robots)}})

first_at(s, k) ==
    IF occurs_in(s, k)
    THEN CHOOSE i \in 1..(Len(s) - Len(k) + 1) :
             /\ SubSeq(s, i, i + Len(k) - 1) = k
             /\ \A j \in 1..(i - 1) : SubSeq(s, j, j + Len(k) - 1) # k
    ELSE 0

\* url.split(self.base_url, 1)[-1], line 102
after_base(url, at) ==
    IF at = 0 THEN url ELSE SubSeq(url, at + Len(self_base_url), Len(url))

\* _allowed, lines 102-106
allowed(url, rules) ==
    The({~\E rule \in rules : startswith(path, rule) :
            path \in {The({after_base(url, at) : at \in {first_at(url, self_base_url)}})}})

\* lines 68-83: a <url> without <loc> or with a disallowed location is passed over; for
\* the first other one line 78 raises TypeError (url_tag.findtext is the child lookup
\* url_tag.find("findtext"), which is None, and None is called)
RECURSIVE url_loop(_, _)
url_loop(url_elems, rules) ==
    IF url_elems = <<>> THEN [raised |-> FALSE, entries |-> <<>>]
    ELSE IF Head(url_elems).loc = None THEN url_loop(Tail(url_elems), rules)
    ELSE IF ~allowed(strip(Head(url_elems).loc[1]), rules) THEN url_loop(Tail(url_elems), rules)
    ELSE [raised |-> TRUE, entries |-> <<>>]

\* _allowed is called, and with it _load_robots, when a <url> has a <loc>
needs_rules(content) == \E i \in 1..Len(content.urls) : content.urls[i].loc # None

\* a call of parse: its target, the children of line 63 not yet parsed, its entries
Frame(target, children, entries) ==
    [target |-> target, children |-> children, entries |-> entries]

\* entries.extend(self.parse(child_url)), line 65, when the innermost call returns
returned_to(stk) ==
    [i \in 1..(Len(stk) - 1) |->
        IF i = Len(stk) - 1 THEN [stk[i] EXCEPT !.entries = @ \o stk[Len(stk)].entries]
        ELSE stk[i]]

without_child(stk) == [stk EXCEPT ![Len(stk)].children = Tail(@)]

\* the program from a point in the loop of lines 63-65 of the innermost call up to the
\* next session.get or to the return of the outermost call
RECURSIVE resume(_, _)
RECURSIVE enter_child(_, _, _)
enter_child(stk, seen, target) ==
    IF target \in seen THEN resume(stk, seen)
    ELSE [status |-> "fetch", frames |-> Append(stk, Frame(target, <<>>, <<>>)),
          visited |-> visit(seen, target), entries |-> <<>>]

resume(stk, seen) ==
    IF stk[Len(stk)].children = <<>>
    THEN IF Len(stk) = 1
         THEN [status |-> "returned", frames |-> <<>>, visited |-> seen,
               entries |-> stk[1].entries]
         ELSE The({resume(rest, seen) : rest \in {returned_to(stk)}})
    ELSE The({enter_child(rest, seen, target) :
                 rest \in {without_child(stk)},
                 target \in {target_of(Some(Head(stk[Len(stk)].children)))}})

\* an exception leaves every call of parse on the stack
raises ==
    /\ frames' = <<>>
    /\ s_pc' = "idle"
    /\ parse_result' = Some([raised |-> TRUE, entries |-> <<>>])
    /\ UNCHANGED <<visited, fetch_attempt>>

\* the loop of lines 63-65 goes on after the step r
goes_on(r) ==
    /\ frames' = r.frames
    /\ visited' = r.visited
    /\ IF r.status = "fetch"
       THEN s_pc' = "fetching" /\ fetch_attempt' = 1 /\ parse_result' = None
       ELSE /\ s_pc' = "idle"
            /\ parse_result' = Some([raised |-> FALSE, entries |-> r.entries])
            /\ UNCHANGED fetch_attempt

\* lines 59-83 for the text that fetch returned to the innermost call; BeautifulSoup
\* does not raise on a document that is not well formed, it keeps the elements it read
parsed_text(content, rules) ==
    IF content.sitemapindex
    THEN \E stk \in {[frames EXCEPT ![Len(frames)].children = find_all_loc(content)]} :
             \E r \in {resume(stk, visited)} : goes_on(r)
    ELSE \E looped \in {url_loop(content.urls, rules)} :
             IF looped.raised THEN raises
             ELSE \E stk \in {[frames EXCEPT ![Len(frames)].entries = looped.entries]} :
                      \E r \in {resume(stk, visited)} : goes_on(r)

\* parse(url) called from outside: lines 53-58 up to the first session.get
Parse(url) ==
    /\ s_pc = "idle"
    /\ parse_calls < MaxParseCalls
    /\ parse_calls' = parse_calls + 1
    /\ \E target \in {target_of(url)} :
           /\ call' = [target |-> target, failed_before |-> target \in raised_on, gets |-> 0]
           /\ IF target \in visited
              THEN /\ parse_result' = Some([raised |-> FALSE, entries |-> <<>>])
                   /\ UNCHANGED <<visited, frames, s_pc, fetch_attempt>>
              ELSE /\ visited' = visit(visited, target)
                   /\ frames' = <<Frame(target, <<>>, <<>>)>>
                   /\ s_pc' = "fetching"
                   /\ fetch_attempt' = 1
                   /\ parse_result' = None
    /\ UNCHANGED <<robots_rules, raised_on>>
    /\ UNCHANGED <<engine_vars, pipeline_vars>>

\* a session.get of fetch ends (lines 41-48); when it gave the text, lines 59-83 follow,
\* with the GET of robots.txt that the first _allowed makes
Got(outcome, robots_outcome) ==
    /\ s_pc = "fetching"
    /\ outcome \in Outcomes(frames[Len(frames)].target)
    /\ \E got \in {get_text(frames[Len(frames)].target, outcome)} :
           IF ~got.ok
           THEN IF fetch_attempt = max_retries
                THEN /\ raises
                     /\ raised_on' = raised_on \cup {frames[Len(frames)].target}
                     /\ call' = [call EXCEPT !.gets = @ + 1]
                     /\ UNCHANGED robots_rules
                ELSE /\ s_pc' = "sleeping"
                     /\ call' = [call EXCEPT !.gets = @ + 1]
                     /\ UNCHANGED <<visited, frames, fetch_attempt, parse_result, robots_rules,
                                    raised_on>>
           ELSE IF ~got.text.sitemapindex /\ needs_rules(got.text) /\ robots_rules = None
           THEN /\ robots_rules' = Some(loaded_rules(robots_outcome))
                /\ call' = [call EXCEPT !.gets = @ + 2]
                /\ \E rules \in {loaded_rules(robots_outcome)} : parsed_text(got.text, rules)
                /\ UNCHANGED raised_on
           ELSE /\ call' = [call EXCEPT !.gets = @ + 1]
                /\ \E rules \in {IF robots_rules = None THEN {} ELSE robots_rules[1]} :
                       parsed_text(got.text, rules)
                /\ UNCHANGED <<robots_rules, raised_on>>
    /\ UNCHANGED parse_calls
    /\ UNCHANGED <<engine_vars, pipeline_vars>>

\* time.sleep(2 ** attempt) ends and the loop of fetch goes round
Slept ==
    /\ s_pc = "sleeping"
    /\ s_pc' = "fetching"
    /\ fetch_attempt' = fetch_attempt + 1
    /\ UNCHANGED <<visited, robots_rules, frames, parse_result, parse_calls, call, raised_on>>
    /\ UNCHANGED <<engine_vars, pipeline_vars>>

\* the targets parse is called with from outside; None is the default of the argument
SyncTargets ==
    {None, Some(SiteA \o P_S), Some(SiteA \o P_D), Some(SiteA \o P_sitemap1),
     Some(SiteA \o P_index)}

SyncInit ==
    /\ pc = "off"
    /\ calls = 0
    /\ stale = {}
    /\ max_concurrent = 1
    /\ parsed_sitemaps = {}
    /\ all_urls = <<>>
    /\ website_url = <<>>
    /\ max_depth = 0
    /\ domain = <<>>
    /\ robots_attempt = 0
    /\ pending_sitemaps = <<>>
    /\ depth = 0
    /\ semaphore = 0
    /\ tasks = <<>>
    /\ result = <<>>
    /\ fetch_log = <<>>
    /\ fetch_end = <<>>
    /\ robots_end = ""
    /\ seeds = <<>>
    /\ p_pc = "off"
    /\ p_in = <<>>
    /\ p_out = <<>>
    /\ p_score = None
    /\ visited = {}
    /\ robots_rules = None
    /\ frames = <<>>
    /\ s_pc = "idle"
    /\ fetch_attempt = 0
    /\ parse_result = None
    /\ parse_calls = 0
    /\ call = [target |-> <<>>, failed_before |-> FALSE, gets |-> 0]
    /\ raised_on = {}

SyncNext ==
    \/ \E url \in SyncTargets : Parse(url)
    \/ \E outcome \in {"response", "exception"}, robots_outcome \in {"response", "exception"} :
           Got(outcome, robots_outcome)
    \/ Slept

SyncSpec == SyncInit /\ [][SyncNext]_vars

(***************************************************************************)
(* Properties of the synchronous parser (SyncSpec)                         *)
(***************************************************************************)
EmptyList == Some([raised |-> FALSE, entries |-> <<>>])

\* C30: parse adds its target to visited before it fetches it: while a fetch is under
\* way (a GET pending or the sleep between two attempts) the target of every call of
\* parse on the stack is in visited; a target whose fetch raised after max_retries
\* attempts stays in visited; and a later parse of such a target returns the empty
\* list without any GET.
C30_FailedTargetStaysVisited ==
    /\ s_pc \in {"fetching", "sleeping"} =>
           \A i \in 1..Len(frames) : frames[i].target \in visited
    /\ raised_on \subseteq visited
    /\ (s_pc = "idle" /\ parse_calls >= 1 /\ call.failed_before) =>
           /\ parse_result = EmptyList
           /\ call.gets = 0

\* a parse of a target whose fetch had raised at the last of max_retries attempts in an
\* earlier call has returned
C30_Witness ==
    /\ s_pc = "idle"
    /\ call.failed_before
    /\ call.target \in raised_on
    /\ call.target \in visited
    /\ parse_result = EmptyList
    /\ call.gets = 0

(***************************************************************************)
(* Properties of the resolution (Spec, FairSpec)                           *)
(***************************************************************************)
\* sitemap URLs whose fetch returned the document
Succeeded == {u \in DOMAIN fetch_end : "content" \in Range(fetch_end[u])}

\* the depth at which u was first fetched
level_of(u) == fetch_log[u][1]

\* the records and the child references of the document the site serves at u
entries_at(u) == Range(parse_sitemap_xml(Site(u).body, u)[1])

children_at(u) ==
    {normalize_url(c, domain) : c \in Range(parse_sitemap_xml(Site(u).body, u)[2])}

\* tasks that hold a permit: a GET under way, or a backoff sleep between two GETs
InFlight == {i \in 1..Len(tasks) : tasks[i].st \in {"fetching", "backoff"}}

\* C1: during one parse_website call every sitemap URL is fetched at most once, also
\* when several parents reference it, when it occurs twice in one frontier, or on a cycle
C1_FetchedAtMostOnce == \A u \in DOMAIN fetch_log : Len(fetch_log[u]) <= 1

\* a frontier holds one URL at two positions, both tasks have ended, one fetch was made
C1_Witness ==
    /\ pc = "gather"
    /\ \E i, j \in 1..Len(tasks) :
           /\ i < j
           /\ pending_sitemaps[i] = pending_sitemaps[j]
           /\ tasks[i].st = "done"
           /\ tasks[j].st = "done"
           /\ pending_sitemaps[i] \in DOMAIN fetch_log
           /\ Len(fetch_log[pending_sitemaps[i]]) = 1

\* the number of frontier levels entered so far
LevelsEntered == IF pc = "gather" THEN depth + 1 ELSE depth

\* C2: parse_website never enters more than max_depth frontier levels and always
\* comes to its end, also on the cyclic graph of the site (A -> B -> A)
C2_Terminates ==
    /\ [](pc \in {"gather", "done"} => LevelsEntered <= max_depth)
    /\ <>(pc = "done")

\* the call ended at the depth limit with children of a cycle still pending
C2_Witness ==
    /\ pc = "done"
    /\ depth = max_depth
    /\ max_depth > 0
    /\ pending_sitemaps # <<>>
    /\ SiteA \o P_A \in DOMAIN fetch_log
    /\ SiteA \o P_B \in DOMAIN fetch_log

\* C3: a sitemap is fetched only at a depth below max_depth, and every returned
\* record comes from a document that was fetched
C3_WithinDepth ==
    /\ \A u \in DOMAIN fetch_log : \A k \in 1..Len(fetch_log[u]) : fetch_log[u][k] < max_depth
    /\ pc = "done" => \A k \in 1..Len(result) : result[k].source_sitemap \in DOMAIN fetch_log

\* max_depth = 1 on the chain index -> A -> C: the index was fetched, A is pending and
\* never fetched, the url-set C neither, and records were returned
C3_Witness ==
    /\ pc = "done"
    /\ max_depth = 1
    /\ SiteA \o P_index \in Succeeded
    /\ SiteA \o P_A \in Range(pending_sitemaps)
    /\ SiteA \o P_A \notin DOMAIN fetch_log
    /\ SiteA \o P_C \notin DOMAIN fetch_log
    /\ result # <<>>

AllFetchesFailed == robots_end \in {"none", "raise"} /\ Succeeded = {}

\* C5: when robots.txt and every sitemap fetch fail, parse_website returns the
\* empty list and raises nothing
C5_AllFail ==
    (pc \in {"done", "raised"} /\ AllFetchesFailed) => (pc = "done" /\ result = <<>>)

\* the call ended after fetches that all failed, by a status and by an exception
C5_Witness ==
    /\ pc = "done"
    /\ AllFetchesFailed
    /\ robots_end = "raise"
    /\ \E u, v \in DOMAIN fetch_end :
           "raise" \in Range(fetch_end[u]) /\ "none" \in Range(fetch_end[v])

\* C6: at most max_concurrent sitemap fetches are in flight at any moment, a task in
\* retry backoff counted
C6_BoundedConcurrency == Cardinality(InFlight) <= max_concurrent

\* the limit is reached with a task in backoff while another task waits for a permit
C6_Witness ==
    /\ Cardinality(InFlight) = max_concurrent
    /\ \E i \in InFlight : tasks[i].st = "backoff"
    /\ \E i \in 1..Len(tasks) : tasks[i].st = "waiting"

\* C10: no returned record has a path that starts with a Disallow prefix of the
\* robots.txt the site serves
C10_NoDisallowedInResult ==
    (pc = "done" /\ robots_end = "content")
        => \A k \in 1..Len(result) :
               \A prefix \in DisallowPrefixes(Site(urljoin(domain, P_robots)).body) :
                   ~startswith(urlparse(result[k].url).path, prefix)

\* the GETs task i has issued for its sitemap; 0 when the visited test skipped the fetch
requests_of(i) == tasks[i].attempt

\* task i fetched and ended without the document
failed(i) ==
    /\ tasks[i].st = "done"
    /\ requests_of(i) >= 1
    /\ tasks[i].out[1].kind = "info"
    /\ tasks[i].out[1].info.error # None

\* C15: a fetch that fails, by a status other than 200 as well as by a connection error
\* or timeout, has made exactly 3 requests, and no fetch makes more than 3
C15_RetriesNon2xx ==
    pc = "gather"
        => \A i \in 1..Len(tasks) :
               /\ requests_of(i) <= 3
               /\ failed(i) => requests_of(i) = 3

\* C16: a fetch ends with the content or with an error raised after the retries, never
\* with a missing value
C16_ContentOrError ==
    /\ robots_end \in {"", "content", "raise"}
    /\ \A u \in DOMAIN fetch_end :
           \A k \in 1..Len(fetch_end[u]) : fetch_end[u][k] \in {"content", "raise"}

\* the six well-known sitemap locations of the target domain
WellKnownSeeds == {domain \o common_paths[i] : i \in 1..Len(common_paths)}

\* C17: when the robots.txt fetch fails, by a status or by exhausted retries, nothing is
\* raised and the resolution goes on with the well-known seed paths as its first frontier
C17_RobotsFailure ==
    robots_end \in {"none", "raise"}
        => /\ pc \in {"gather", "done"}
           /\ depth = 0 => Range(pending_sitemaps) = WellKnownSeeds

\* robots.txt raised on all three attempts and a task of the seed frontier is fetching
C17_Witness ==
    /\ robots_end = "raise"
    /\ pc = "gather"
    /\ depth = 0
    /\ \E i \in 1..Len(tasks) : tasks[i].st = "fetching"

\* a depth or concurrency parameter the specification calls invalid
InvalidParameters == max_concurrent <= 0 \/ max_depth < 0

\* C18: a call with an invalid depth or concurrency parameter ends with an error before
\* any request, the GET of robots.txt included, is issued
C18_InvalidConfigAborts ==
    (calls >= 1 /\ InvalidParameters) => (pc = "raised" /\ robots_attempt = 0)

\* the tasks of the current frontier that have gone through lines 170-177
Entered == {i \in 1..Len(tasks) : tasks[i].st \notin {"waiting", "cancelled"}}

\* C19: a parse_website call starts with an empty visited set and no accumulated record,
\* whatever earlier calls on the same parser left; the visited set then holds the URLs
\* fetched in this call only, so that every sitemap the call comes to is fetched again,
\* the well-known seeds among them; every returned record comes from a document that
\* this call fetched
C19_CallScoped ==
    /\ (pc = "robots" /\ robots_attempt = 1) => (parsed_sitemaps = {} /\ all_urls = <<>>)
    /\ parsed_sitemaps = DOMAIN fetch_log
    /\ pc = "gather" => \A i \in Entered : pending_sitemaps[i] \in DOMAIN fetch_log
    /\ (pc = "done" /\ max_depth >= 1) => WellKnownSeeds \subseteq DOMAIN fetch_log
    /\ pc = "done" =>
          \A k \in 1..Len(result) :
              /\ result[k].source_sitemap \in Succeeded
              /\ result[k] \in entries_at(result[k].source_sitemap)

\* a second call, begun on a parser that held a visited set and records, has fetched
\* the seeds again and returns records
C19_Witness ==
    /\ calls = 2
    /\ {"visited", "records"} \subseteq stale
    /\ pc = "done"
    /\ result # <<>>
    /\ WellKnownSeeds \subseteq DOMAIN fetch_log

\* C20: a cancelled parse_website call leaves no fetch in flight and no task waiting,
\* and has no result list; a result exists only when a call has returned, and then each
\* of its records comes from a document fetched in that call, never from what a
\* cancelled call had accumulated
C20_Cancellation ==
    /\ pc = "cancelled" =>
          /\ InFlight = {}
          /\ \A i \in 1..Len(tasks) : tasks[i].st \in {"done", "cancelled"}
          /\ result = <<>>
    /\ result # <<>> => pc = "done"
    /\ pc = "done" =>
          \A k \in 1..Len(result) :
              /\ result[k].source_sitemap \in Succeeded
              /\ level_of(result[k].source_sitemap) < max_depth

\* a call returns records after an earlier call on the same parser was cancelled with
\* fetches in flight and records accumulated
C20_Witness ==
    /\ {"cancelled", "abandoned"} \subseteq stale
    /\ pc = "done"
    /\ result # <<>>

\* how the fetch of u ended in this call, as the outcome of its last GET
last_outcome(u) ==
    IF u \in DOMAIN fetch_end /\ "raise" \in Range(fetch_end[u]) THEN "exception"
    ELSE "response"

\* what the task that is first to come to u returns
fetched_info(u) ==
    The({parse_single_sitemap(u, fetched) : fetched \in {fetch_content(u, last_outcome(u))}})

\* the results of a frontier whose documents are fetched one after the other, in list
\* order, each fetch ending as it ended in this call
RECURSIVE in_turn(_, _)
in_turn(pend, parsed) ==
    IF pend = <<>> THEN <<>>
    ELSE IF Head(pend) \in parsed
    THEN <<already_parsed(Head(pend))>> \o in_turn(Tail(pend), parsed)
    ELSE <<fetched_info(Head(pend))>> \o in_turn(Tail(pend), parsed \cup {Head(pend)})

\* the sitemaps visited at the levels before the current one
VisitedBefore == {u \in DOMAIN fetch_log : level_of(u) < depth}

\* the list parse_website returns when every level is resolved in list order
RECURSIVE one_by_one(_, _, _, _)
RECURSIVE level_in_turn(_, _, _, _)
level_in_turn(outs, d, known, urls) ==
    The({one_by_one(merged.next_level_sitemaps, d + 1, known, merged.all_urls) :
            merged \in {merge(outs, domain, known, urls, <<>>)}})

one_by_one(pend, d, parsed, urls) ==
    IF loop_continues(pend, d, max_depth)
    THEN The({level_in_turn(outs, d, known, urls) :
                 outs \in {in_turn(pend, parsed)}, known \in {parsed \cup Range(pend)}})
    ELSE The({filter_urls(unique_urls, domain) : unique_urls \in {deduplicate_urls(urls)}})

\* C21: for a given site (each fetch ending as it ends) and a given seed frontier, the
\* order in which the concurrent fetches of a level complete changes nothing: every
\* finished task holds the result an in-order, one-by-one resolution gives its position,
\* and the returned list is the list that resolution returns
C21_CompletionOrderIrrelevant ==
    /\ pc = "gather" =>
          \A i \in 1..Len(tasks) :
              tasks[i].st = "done" =>
                  tasks[i].out = Some(in_turn(pending_sitemaps, VisitedBefore)[i])
    /\ pc = "done" => result = one_by_one(seeds, 0, {}, <<>>)

\* a task has returned records while a task before it in the list is still fetching
C21_Witness ==
    /\ pc = "gather"
    /\ \E i, j \in 1..Len(tasks) :
           /\ i < j
           /\ tasks[i].st \in {"fetching", "backoff"}
           /\ tasks[j].st = "done"
           /\ tasks[j].out[1].info.urls # <<>>

\* the accumulated records come from documents of the levels before the current one
RecordsOfEarlierLevels ==
    \A k \in 1..Len(all_urls) : all_urls[k].source_sitemap \in VisitedBefore

\* C22: while fetches of the current level are running, the visited set and the
\* accumulated records are as the coordinating task left them when the level began: no
\* worker task has written either
C22_CollectThenMerge ==
    (pc = "gather" /\ InFlight # {}) =>
        (parsed_sitemaps = VisitedBefore /\ RecordsOfEarlierLevels)

\* seq holds no element twice
NoDuplicates(seq) == \A i, j \in 1..Len(seq) : seq[i] = seq[j] => i = j

\* C23: a frontier built for a next depth holds no URL twice and, when it is built,
\* no URL of the visited set
C23_NextFrontierDeduplicated ==
    (pc = "gather" /\ depth >= 1) =>
        /\ NoDuplicates(pending_sitemaps)
        /\ \A k \in 1..Len(pending_sitemaps) : pending_sitemaps[k] \notin VisitedBefore

\* the call has built its seed frontier
Seeded == pc \in {"gather", "done"} \/ (pc = "cancelled" /\ robots_end # "")

\* what _check_robots_txt returned in this call: the declared sitemaps of the robots.txt
\* the site serves when the fetch returned it, nothing otherwise
RobotsDeclared ==
    IF robots_end = "content"
    THEN Range(robots_sitemaps_of(Site(domain \o P_robots).body))
    ELSE {}

DefaultSeed == domain \o common_paths[1]

\* C24: the seed frontier holds no URL twice, its members are the sitemap URLs declared
\* in robots.txt together with the well-known paths joined to the domain, it is not
\* empty, and it is the single default /sitemap.xml exactly when both sources are empty
C24_SeedFrontier ==
    Seeded =>
        /\ NoDuplicates(seeds)
        /\ Range(seeds) = RobotsDeclared \cup WellKnownSeeds
        /\ seeds # <<>>
        /\ (seeds = <<DefaultSeed>>) <=> (RobotsDeclared = {} /\ WellKnownSeeds = {})
        /\ depth = 0 => pending_sitemaps = seeds

\* robots.txt declares a well-known path and a sitemap of another site: the seed
\* frontier holds the six well-known paths and the other site's sitemap, each once
C24_Witness ==
    /\ pc = "gather"
    /\ depth = 0
    /\ robots_end = "content"
    /\ WellKnownSeeds \cap RobotsDeclared # {}
    /\ RobotsDeclared \ WellKnownSeeds # {}
    /\ Len(seeds) = 7

\* C25: the resolution goes level by level: every fetch under way belongs to the current
\* level, and every fetch of an earlier level has ended before the current level began
C25_LevelByLevel ==
    /\ \A i \in InFlight : fetch_log[pending_sitemaps[i]] = <<depth>>
    /\ \A u \in DOMAIN fetch_log : level_of(u) <= depth
    /\ \A u \in VisitedBefore : u \in DOMAIN fetch_end

\* a fetch of depth 1 is under way; the seed level held a document that was fetched, one
\* the server refused and one whose fetch raised on every attempt
C25_Witness ==
    /\ pc = "gather"
    /\ depth = 1
    /\ InFlight # {}
    /\ \E u, v, w \in VisitedBefore :
           /\ fetch_end[u] = <<"content">>
           /\ fetch_end[v] = <<"none">>
           /\ fetch_end[w] = <<"raise">>

\* every task of the level has ended and every permit is back
LevelComplete ==
    /\ pc = "gather"
    /\ \A i \in 1..Len(tasks) : tasks[i].st = "done"
    /\ semaphore = max_concurrent

\* C28: a permit of the level's semaphore is either free or held by a task that is
\* fetching or backing off, whatever the outcomes of the tasks that ended; hence every
\* level that begins comes to the point where all its tasks have ended and all permits
\* are back, which is when the gather returns
C28_PermitsReleased ==
    /\ [](pc = "gather" => semaphore + Cardinality(InFlight) = max_concurrent)
    /\ (pc = "gather") ~> LevelComplete

\* a level with more tasks than permits is complete: one task fetched its document, one
\* was refused, one failed after the last attempt
C28_Witness ==
    /\ LevelComplete
    /\ Len(tasks) > max_concurrent
    /\ \E i, j, k \in 1..Len(tasks) :
           /\ tasks[i].attempt = MaxAttempts /\ tasks[i].out[1].info.error # None
           /\ tasks[j].attempt = 1 /\ tasks[j].out[1].info.error # None
           /\ tasks[k].attempt >= 1 /\ tasks[k].out[1].info.error = None

\* the records of the documents that the tasks of the level have parsed so far
ParsedRecords ==
    UNION {Range(tasks[i].out[1].info.urls) : i \in {j \in 1..Len(tasks) : tasks[j].st = "done"}}

\* C26: no record that _parse_sitemap_xml produces, and so no accumulated record, has an
\* empty url
C26_NoEmptyUrl ==
    /\ \A r \in ParsedRecords : r.url # <<>>
    /\ \A k \in 1..Len(all_urls) : all_urls[k].url # <<>>

\* the child references of the document at u, each resolved against the domain of u
resolved_in(u) ==
    {normalize_url(c, get_domain(u)) : c \in Range(parse_sitemap_xml(Site(u).body, u)[2])}

\* the documents fetched at the level before the current one
ParentsOfLevel == {u \in Succeeded : level_of(u) = depth - 1}

\* C27: every member of a frontier built for a next depth is a child reference of a
\* document of the level before, resolved against the domain of that document
C27_ResolvedAgainstDocument ==
    (pc = "gather" /\ depth >= 1) =>
        \A k \in 1..Len(pending_sitemaps) :
            \E u \in ParentsOfLevel : pending_sitemaps[k] \in resolved_in(u)

(***************************************************************************)
(* Properties of _deduplicate_urls and _filter_urls (PipelineSpec)         *)
(***************************************************************************)
\* the positions of p_in that hold the first record of their url
FirstIndexes == {i \in 1..Len(p_in) : \A j \in 1..(i - 1) : p_in[j].url # p_in[i].url}

\* the k-th of them in input order
kth_first(k) == CHOOSE i \in FirstIndexes : Cardinality({j \in FirstIndexes : j <= i}) = k

\* C7: the output of _deduplicate_urls holds no two records with the same url
C7_NoDuplicateUrls ==
    p_pc = "deduplicated"
        => \A i, j \in 1..Len(p_out) : p_out[i].url = p_out[j].url => i = j

\* the input held two different records of one url
C7_Witness ==
    /\ p_pc = "deduplicated"
    /\ \E i, j \in 1..Len(p_in) : i < j /\ p_in[i].url = p_in[j].url /\ p_in[i] # p_in[j]

\* C8: the output of _deduplicate_urls is the list of the records that are the first of
\* their url, in input order, each exactly as it was given
C8_FirstOccurrences ==
    p_pc = "deduplicated"
        => /\ Len(p_out) = Cardinality(FirstIndexes)
           /\ \A k \in 1..Len(p_out) : p_out[k] = p_in[kth_first(k)]

\* a record, a record of another url, then a duplicate of the first with other
\* metadata: two records are kept
C8_Witness ==
    /\ p_pc = "deduplicated"
    /\ Len(p_in) = 3
    /\ p_in[1].url = p_in[3].url
    /\ p_in[1] # p_in[3]
    /\ p_in[2].url # p_in[1].url
    /\ Len(p_out) = 2

\* the host of a netloc: without userinfo and port, in lower case
without_userinfo(netloc) ==
    IF \E i \in 1..Len(netloc) : netloc[i] = "@"
    THEN SubSeq(netloc,
                1 + CHOOSE i \in 1..Len(netloc) :
                        netloc[i] = "@" /\ \A j \in (i + 1)..Len(netloc) : netloc[j] # "@",
                Len(netloc))
    ELSE netloc

without_port(hostport, colon) ==
    IF colon = 0 THEN hostport ELSE SubSeq(hostport, 1, colon - 1)

hostname(url) ==
    The({lower(without_port(hostport, find(hostport, {":"}))) :
            hostport \in {without_userinfo(urlparse(url).netloc)}})

\* C9: every record that _filter_urls lets through has the host of the target domain
C9_SameHost ==
    p_pc \in {"filtered", "returned"}
        => \A k \in 1..Len(p_out) : hostname(p_out[k].url) = hostname(website_url)

\* the input held a record of a subdomain of the target and a record of the target,
\* and records were let through
C9_Witness ==
    /\ p_pc \in {"filtered", "returned"}
    /\ p_out # <<>>
    /\ \E i \in 1..Len(p_in) :
           endswith(hostname(p_in[i].url), <<".">> \o hostname(website_url))

\* the twelve suffixes the specification excludes
ExcludedSuffixes ==
    { <<".","p","d","f">>, <<".","j","p","g">>, <<".","j","p","e","g">>, <<".","p","n","g">>,
      <<".","g","i","f">>, <<".","b","m","p">>, <<".","c","s","s">>, <<".","j","s">>,
      <<".","i","c","o">>, <<".","x","m","l">>, <<".","t","x","t">>, <<".","z","i","p">> }

lowered_path(url) == lower(urlparse(url).path)

HasExcludedSuffix(url) == \E ext \in ExcludedSuffixes : endswith(lowered_path(url), ext)

\* the input is three records of the target's netloc, exactly one of them with a
\* .pdf path and the two others with no excluded suffix
OnePdfOfThree ==
    /\ Len(p_in) = 3
    /\ \A i \in 1..3 : urlparse(p_in[i].url).netloc = urlparse(website_url).netloc
    /\ \E i \in 1..3 :
           /\ endswith(lowered_path(p_in[i].url), <<".","p","d","f">>)
           /\ \A j \in (1..3) \ {i} : ~HasExcludedSuffix(p_in[j].url)

\* C11: no record that _filter_urls lets through has a path whose lowercased form ends
\* with an excluded extension, and of three on-domain records with exactly one .pdf
\* exactly the two others are let through
C11_NoExcludedExtension ==
    p_pc \in {"filtered", "returned"}
        => /\ \A k \in 1..Len(p_out) : ~HasExcludedSuffix(p_out[k].url)
           /\ (p_pc = "filtered" /\ OnePdfOfThree)
                  => /\ Len(p_out) = 2
                     /\ Range(p_out) = {p_in[j] : j \in {i \in 1..3 : ~HasExcludedSuffix(p_in[i].url)}}

\* _filter_urls ran on three on-domain records, one of them a .pdf, and returned two
C11_Witness ==
    /\ p_pc = "filtered"
    /\ OnePdfOfThree
    /\ Len(p_out) = 2

\* the positions of p_in whose record _filter_urls let through
KeptIndexes == {i \in 1..Len(p_in) : p_in[i] \in Range(p_out)}

\* the place of p_in[i] in a stable descending sort of the kept records
rank(i) ==
    1 + Cardinality({j \in KeptIndexes :
                        \/ get_url_priority(p_in[j]) > get_url_priority(p_in[i])
                        \/ (get_url_priority(p_in[j]) = get_url_priority(p_in[i]) /\ j < i)})

\* C14: the output of _filter_urls is in order of non-increasing computed score, and
\* records of equal score keep the relative order they had in the input
C14_StableDescending ==
    /\ p_pc \in {"filtered", "returned"}
           => \A i, j \in 1..Len(p_out) :
                  i < j => get_url_priority(p_out[i]) >= get_url_priority(p_out[j])
    /\ p_pc = "filtered"
           => /\ Len(p_out) = Cardinality(KeptIndexes)
              /\ \A i \in KeptIndexes : p_out[rank(i)] = p_in[i]

\* a record of low score came first in the input, followed by two different records of
\* equal higher score: the two lead the output in their input order
C14_Witness ==
    /\ p_pc = "filtered"
    /\ Len(p_in) = 3
    /\ Len(p_out) = 3
    /\ p_out = <<p_in[2], p_in[3], p_in[1]>>
    /\ p_in[2] # p_in[3]
    /\ get_url_priority(p_in[2]) = get_url_priority(p_in[3])
    /\ get_url_priority(p_in[1]) < get_url_priority(p_in[2])

\* how many times record r occurs in list
occurrences(list, r) == Cardinality({i \in 1..Len(list) : list[i] = r})

\* the host of the url as it is written: the netloc without user information and port
exact_host(url) ==
    The({without_port(hostport, find(hostport, {":"})) :
            hostport \in {without_userinfo(urlparse(url).netloc)}})

ExcludedSubstrings ==
    { <<"a","d","m","i","n">>, <<"w","p","-","a","d","m","i","n">>, <<"l","o","g","i","n">>,
      <<"r","e","g","i","s","t","e","r">>, <<"a","p","i","/">> }

HasExcludedSubstring(url) == \E sub \in ExcludedSubstrings : contains(lowered_path(url), sub)

IsDisallowed(url) ==
    \E prefix \in DisallowPrefixes(RobotsLines) : startswith(urlparse(url).path, prefix)

\* the record falls under one of the five exclusion rules, for the target website_url
ViolatesARule(r) ==
    \/ exact_host(r.url) # exact_host(website_url)
    \/ HasExcludedSuffix(r.url)
    \/ HasExcludedSubstring(r.url)
    \/ IsDisallowed(r.url)
    \/ Len(r.url) > MaxUrlLen

\* the output holds no record more often than the input does: it is a reordering of a
\* sub-list of the input, each record with all its fields as given
IsSubListReordered ==
    \A r \in Range(p_in) \cup Range(p_out) : occurrences(p_out, r) <= occurrences(p_in, r)

\* C29: _filter_urls adds and alters nothing, and drops a record only if the record
\* falls under one of the exclusion rules
C29_FilterOnlyDrops ==
    p_pc = "filtered" =>
        /\ IsSubListReordered
        /\ \A r \in Range(p_in) :
               occurrences(p_out, r) < occurrences(p_in, r) => ViolatesARule(r)

(***************************************************************************)
(* Properties of _get_url_priority (ScoreSpec)                             *)
(***************************************************************************)
\* C12: whatever the declared priority hint and the path, the score that
\* _get_url_priority computes lies between 0.0 and 1.0
C12_ScoreInRange == p_pc = "scored" => (p_score[1] >= 0 /\ p_score[1] <= 100)

\* a record with a hint above 1 and the home path, whose sum exceeds 1, was scored
C12_Witness ==
    /\ p_pc = "scored"
    /\ p_in[1].priority # None
    /\ p_in[1].priority[1] > 100
    /\ lowered_path(p_in[1].url) = <<"/">>
    /\ p_score = Some(100)

\* the base of the specification: the declared hint whenever one is declared
declared_base(priority) == IF priority # None THEN priority[1] ELSE 50

non_empty_segments(path) ==
    Cardinality({i \in 1..Len(path) : path[i] # "/" /\ (i = 1 \/ path[i - 1] = "/")})

has_keyword(path) ==
    \/ contains(path, <<"a","b","o","u","t">>)
    \/ contains(path, <<"s","e","r","v","i","c","e">>)
    \/ contains(path, <<"p","r","o","d","u","c","t">>)
    \/ contains(path, <<"c","o","n","t","a","c","t">>)

unclamped(base, path) ==
    base + (IF path = <<>> \/ path = <<"/">> THEN 50 ELSE 0)
         + (IF has_keyword(path) THEN 20 ELSE 0)
         - 10 * non_empty_segments(path)

clamp(x) == IF x < 0 THEN 0 ELSE IF x > 100 THEN 100 ELSE x

expected_score(url_info) ==
    clamp(unclamped(declared_base(url_info.priority), lowered_path(url_info.url)))

\* C13: the score is clamp(base + 0.5 for the home path + 0.2 for a keyword - 0.1 per
\* non-empty segment) where base is the declared hint, a declared 0.0 included, and
\* 0.5 only when no hint is declared
C13_ScoreFormula == p_pc = "scored" => p_score = Some(expected_score(p_in[1]))

====
